---- MODULE Spec2Model ----
(***************************************************************************)
(* The circuit-based explanation engine of xALogic.ipynb: the dDNNF       *)
(* circuit, its loader, the in-place procedures consensus and filter, the *)
(* transforms negate, quantify and condition, the evaluator               *)
(* is_satisfiable, the reason enumerator Pi and the explanation queries.  *)
(*                                                                         *)
(* Python values are modelled as follows.                                  *)
(*   str            a sequence of one-character strings                    *)
(*   list           a sequence; Python index i is position i + 1           *)
(*   list object    an entry of heap, named by its position (a reference): *)
(*                  two circuits holding the same reference share the list *)
(*   dict           a sequence of <<key, value>> pairs, keys distinct      *)
(*   exception      the err field of a result                              *)
(***************************************************************************)
EXTENDS Integers, Sequences, FiniteSets, TLC

VARIABLES heap, circ, file, hist, ret

vars == <<heap, circ, file, hist, ret>>

(***************************************************************************)
(* Bounds of the model.                                                    *)
(***************************************************************************)
\* The number of operations that build or change a circuit, applied after
\* the circuit is loaded.
MaxOps == 3

\* The same for the admission circuit, the large one.
MaxOpsAdmission == 2

(***************************************************************************)
(* Python strings and the conversions str() and int().                    *)
(***************************************************************************)
DigitChars == <<"0", "1", "2", "3", "4", "5", "6", "7", "8", "9">>

IsDigit(ch) == \E d \in 1..Len(DigitChars) : DigitChars[d] = ch

DigitVal(ch) == (CHOOSE d \in 1..Len(DigitChars) : DigitChars[d] = ch) - 1

RECURSIVE digits(_)
digits(n) ==
  IF n < Len(DigitChars)
    THEN <<DigitChars[n + 1]>>
    ELSE Append(digits(n \div Len(DigitChars)), DigitChars[(n % Len(DigitChars)) + 1])

\* str(x) for an integer x
str(x) == IF x < 0 THEN <<"-">> \o digits(-x) ELSE digits(x)

RECURSIVE nat_of(_)
nat_of(s) ==
  IF Len(s) = 1
    THEN DigitVal(s[1])
    ELSE Len(DigitChars) * nat_of(SubSeq(s, 1, Len(s) - 1)) + DigitVal(s[Len(s)])

\* int(s) returns (otherwise it raises ValueError)
CanInt(s) ==
  LET body == IF Len(s) > 0 /\ s[1] = "-" THEN Tail(s) ELSE s
  IN  Len(body) > 0 /\ \A k \in 1..Len(body) : IsDigit(body[k])

\* int(s) for a string s with CanInt(s)
int(s) == IF s[1] = "-" THEN 0 - nat_of(Tail(s)) ELSE nat_of(s)

abs(x) == IF x < 0 THEN 0 - x ELSE x

(***************************************************************************)
(* Python lists: s[i] with a negative i counts from the end; an index     *)
(* outside the list raises IndexError.                                     *)
(***************************************************************************)
InRange(s, i) == (0 - Len(s)) <= i /\ i < Len(s)

At(s, i) == IF i < 0 THEN s[Len(s) + i + 1] ELSE s[i + 1]

\* the position (1-based) that Python index i names
Pos(s, i) == IF i < 0 THEN Len(s) + i + 1 ELSE i + 1

\* dict lookups: `y in a` and `a[y]`
InDict(a, y) == \E k \in 1..Len(a) : a[k][1] = y

DictGet(a, y) == a[CHOOSE k \in 1..Len(a) : a[k][1] = y][2]

\* truth value of a list entry (the instances are lists of 0 and 1)
Truthy(x) == x # 0

(***************************************************************************)
(* class dDNNF: two parallel lists.  children is a list of references to  *)
(* list objects of heap, label a list of strings.                          *)
(***************************************************************************)
\* dDNNF(v) followed by the per-node assignments: a circuit object
dDNNF(children, label) == [children |-> children, label |-> label]

\* the child list of node i of circuit c in heap h
ChildList(h, c, i) == h[At(c.children, i)]

\* what a reader of the circuit sees: the labels and the child lists
View(h, c) ==
  [label    |-> c.label,
   children |-> [n \in 1..Len(c.children) |-> h[c.children[n]]]]

\* a name not yet bound to a circuit
NoCircuit == dDNNF(<<>>, <<>>)

(***************************************************************************)
(* Results of operations that may raise.                                   *)
(***************************************************************************)
NoError == "ok"

\* the running state of an in-place procedure
Run(children, label, h, err) ==
  [children |-> children, label |-> label, heap |-> h, err |-> err]

Raise(st, e) == [st EXCEPT !.err = e]

(***************************************************************************)
(* file_to_dDNNF.  A .nnf file is the list of its lines, each line the    *)
(* list of tokens that strip().split(' ') makes of it; a token is a       *)
(* string.  header is the first line and lines are the lines after it.    *)
(***************************************************************************)
\* the tokens of a node line that c2d writes: a one-letter tag followed by
\* integers
Tokens(line) ==
  [k \in 1..Len(line) |-> IF k = 1 THEN <<line[1]>> ELSE str(line[k])]

\* the file with the header "nnf v e n" and the given node lines, each a
\* tag followed by integers
NNF(v, lines) ==
  [header |-> <<<<"n", "n", "f">>, str(v), str(0), str(0)>>,
   lines  |-> [n \in 1..Len(lines) |-> Tokens(lines[n])]]

\* f.readline().strip().split(' ') for line n after the header: past the
\* end of the file readline gives '', whose split is ['']
ReadLine(f, n) == IF n <= Len(f.lines) THEN f.lines[n] ELSE << <<>> >>

\* the exception raised by int(line[j]), or NoError
IntAt(line, j) ==
  IF ~InRange(line, j) THEN "IndexError"
  ELSE IF ~CanInt(At(line, j)) THEN "ValueError"
  ELSE NoError

\* the exception raised by the loop `for j in range(2, int(line[1]) + 2)`
ChildrenError(line) ==
  LET bad == {j \in 2..(int(At(line, 1)) + 1) : IntAt(line, j) # NoError} IN
  IF bad = {} THEN NoError
  ELSE IntAt(line, CHOOSE j \in bad : \A k \in bad : j <= k)

\* the exception the body of the while loop raises on one line, or NoError
LineError(line) ==
  IF At(line, 0) = <<"A">>
    THEN IF IntAt(line, 1) # NoError THEN IntAt(line, 1)
         ELSE IF int(At(line, 1)) = 0 THEN NoError
         ELSE ChildrenError(line)
    ELSE IF At(line, 0) = <<"O">>
      THEN IF IntAt(line, 2) # NoError THEN IntAt(line, 2)
           ELSE IF int(At(line, 2)) = 0 THEN NoError
           ELSE IF IntAt(line, 3) # NoError THEN IntAt(line, 3)
           ELSE IF IntAt(line, 4) # NoError THEN IntAt(line, 4)
           ELSE NoError
      ELSE IF ~InRange(line, 1) THEN "IndexError" ELSE NoError

\* the loader without the test for a constant
LineLabelNoConstant(line) ==
  IF At(line, 0) = <<"A">> THEN <<"A">>
  ELSE IF At(line, 0) = <<"O">> THEN <<"O">> \o At(line, 1)
  ELSE At(line, 1)

\* the label the loader gives the node of one line
LineLabel(line) ==
  IF At(line, 0) = <<"A">>
    THEN IF int(At(line, 1)) = 0 THEN <<"T">> ELSE <<"A">>
    ELSE IF At(line, 0) = <<"O">>
      THEN IF int(At(line, 2)) = 0 THEN <<"F">> ELSE <<"O">> \o At(line, 1)
      ELSE At(line, 1)

\* the child list the loader gives the node of one line
LineChildren(v, line) ==
  IF At(line, 0) = <<"A">>
    THEN IF int(At(line, 1)) = 0 THEN <<>>
         ELSE [j \in 1..int(At(line, 1)) |-> v - int(At(line, j + 1)) - 1]
    ELSE IF At(line, 0) = <<"O">>
      THEN IF int(At(line, 2)) = 0 THEN <<>>
           ELSE <<v - int(At(line, 3)) - 1, v - int(At(line, 4)) - 1>>
      ELSE <<>>

\* the lines stored in the order read
NodeOfLineForward(v, i) == i

\* the node the line read at loop index i is stored at
NodeOfLine(v, i) == v - i - 1

LoadOk(h, c) == [err |-> NoError, heap |-> h, circ |-> c]

LoadErr(e) == [err |-> e, heap |-> <<>>, circ |-> NoCircuit]

\* the circuit built from the v lines after a header declaring v nodes: the
\* line read at loop index i is stored at node NodeOfLine(v, i)
LoadNodes(f, v) ==
  LET bad == {i \in 0..(v - 1) : LineError(ReadLine(f, i + 1)) # NoError}
      lineOf(n) == ReadLine(f, (CHOOSE i \in 0..(v - 1) : NodeOfLine(v, i) = n - 1) + 1)
  IN
  IF bad # {}
    THEN LoadErr(LineError(ReadLine(f, (CHOOSE i \in bad : \A k \in bad : i <= k) + 1)))
    ELSE LoadOk([n \in 1..v |-> LineChildren(v, lineOf(n))],
                dDNNF([n \in 1..v |-> n], [n \in 1..v |-> LineLabel(lineOf(n))]))

\* file_to_dDNNF(file): the circuit and the list objects of its child
\* lists, or the exception raised
FileToDDNNF(f) ==
  IF IntAt(f.header, 1) # NoError THEN LoadErr(IntAt(f.header, 1))
  ELSE LoadNodes(f, int(At(f.header, 1)))

(***************************************************************************)
(* consensus (in place).                                                   *)
(***************************************************************************)
\* x = int(decision.label[i][1]) returns
CanConsensusVar(lab) == Len(lab) >= 2 /\ CanInt(<<lab[2]>>)

\* x = int(decision.label[i][1])
ConsensusVar(lab) == int(<<lab[2]>>)

\* the body of the loop of consensus for node i
ConsensusStep(st, i) ==
  LET lab == At(st.label, i) IN
  IF Len(lab) = 0 THEN Raise(st, "IndexError")
  ELSE IF lab[1] # "O" THEN st
  ELSE IF Len(lab) < 2 THEN Raise(st, "IndexError")
  ELSE IF ~CanConsensusVar(lab) THEN Raise(st, "ValueError")
  ELSE
    LET x   == ConsensusVar(lab)
        own == st.heap[At(st.children, i)]
    IN
    IF Len(own) < 2 THEN Raise(st, "IndexError")
    ELSE
      LET k == At(own, 0)
          j == At(own, 1)
      IN
      IF ~InRange(st.children, k) \/ ~InRange(st.children, j)
        THEN Raise(st, "IndexError")
      ELSE
        LET ws == st.heap[At(st.children, k)] \o st.heap[At(st.children, j)] IN
        IF \E n \in 1..Len(ws) : ~InRange(st.label, ws[n])
          THEN Raise(st, "IndexError")
        ELSE
          LET cons == SelectSeq(ws, LAMBDA w : At(st.label, w) \notin {str(x), str(0 - x)})
              ref  == Len(st.heap) + 1
              h1   == Append(st.heap, cons)
          IN
          Run(Append(st.children, ref),
              Append(st.label, <<"A">>),
              [h1 EXCEPT ![At(st.children, i)] = Append(@, Len(st.label))],
              NoError)

RECURSIVE ConsensusLoop(_, _, _)
ConsensusLoop(st, i, v) ==
  IF i >= v \/ st.err # NoError
    THEN st
    ELSE ConsensusLoop(ConsensusStep(st, i), i + 1, v)

\* consensus leaving alone a circuit whose Or nodes have a third child
consensusUnlessDone(h, c) ==
  IF \E n \in 1..Len(c.label) :
       Len(c.label[n]) > 0 /\ c.label[n][1] = "O" /\ Len(h[c.children[n]]) > 2
    THEN Run(c.children, c.label, h, NoError)
    ELSE ConsensusLoop(Run(c.children, c.label, h, NoError), 0, Len(c.label))

\* consensus(decision): the circuit and the heap it leaves, and the
\* exception it ends with, if any
consensus(h, c) ==
  ConsensusLoop(Run(c.children, c.label, h, NoError), 0, Len(c.label))

(***************************************************************************)
(* filter (in place).                                                      *)
(***************************************************************************)
NodeTags == {"O", "A", "T", "F"}

\* filter testing the positive literals only
DisagreesPositiveOnly(x, a) == x > 0 /\ ~Truthy(At(a, abs(x) - 1))

\* filter with the polarity test inverted
DisagreesInverted(x, a) ==
  \/ x > 0 /\ Truthy(At(a, abs(x) - 1))
  \/ x < 0 /\ ~Truthy(At(a, abs(x) - 1))

\* (x > 0 and (not a[y])) or (x < 0 and a[y])
Disagrees(x, a) ==
  \/ x > 0 /\ ~Truthy(At(a, abs(x) - 1))
  \/ x < 0 /\ Truthy(At(a, abs(x) - 1))

\* the body of the loop of filter for node i
FilterStep(st, a, i) ==
  IF ~InRange(st.label, i) THEN Raise(st, "IndexError")
  ELSE
    LET lab == At(st.label, i) IN
    IF Len(lab) = 0 THEN Raise(st, "IndexError")
    ELSE IF lab[1] \in NodeTags THEN st
    ELSE IF ~CanInt(lab) THEN Raise(st, "ValueError")
    ELSE
      LET x == int(lab) IN
      IF x = 0 THEN st
      ELSE IF ~InRange(a, abs(x) - 1) THEN Raise(st, "IndexError")
      ELSE IF Disagrees(x, a)
        THEN [st EXCEPT !.label[Pos(st.label, i)] = <<"F">>]
        ELSE st

RECURSIVE FilterLoop(_, _, _, _)
FilterLoop(st, a, i, v) ==
  IF i >= v \/ st.err # NoError
    THEN st
    ELSE FilterLoop(FilterStep(st, a, i), a, i + 1, v)

\* filter(decision, a)
filter(h, c, a) ==
  FilterLoop(Run(c.children, c.label, h, NoError), a, 0, Len(c.children))

(***************************************************************************)
(* prod_cart, remove_subsumed and Pi.                                      *)
(***************************************************************************)
\* [x | y for x in s1 for y in s2]
prod_cart(s1, s2) ==
  [n \in 1..(Len(s1) * Len(s2)) |->
     s1[((n - 1) \div Len(s2)) + 1] \cup s2[((n - 1) % Len(s2)) + 1]]

\* [res[i] for i in range(len(res)) if res[i] not in res[i + 1:]]
RECURSIVE KeepLast(_)
KeepLast(res) ==
  IF res = <<>> THEN <<>>
  ELSE IF \E n \in 2..Len(res) : res[n] = res[1]
    THEN KeepLast(Tail(res))
    ELSE <<res[1]>> \o KeepLast(Tail(res))

\* s2 < s1 on Python sets
ProperSubset(s2, s1) == s2 \subseteq s1 /\ s2 # s1

\* remove_subsumed dropping every copy of a set that occurs twice
remove_subsumed_copies(r) ==
  SelectSeq(r, LAMBDA s1 : /\ ~\E n \in 1..Len(r) : ProperSubset(r[n], s1)
                           /\ Cardinality({n \in 1..Len(r) : r[n] = s1}) = 1)

remove_subsumed(r) ==
  KeepLast(SelectSeq(r, LAMBDA s1 : ~\E n \in 1..Len(r) : ProperSubset(r[n], s1)))

PiOk(r) == [err |-> NoError, r |-> r]

PiErr(e) == [err |-> e, r |-> <<>>]

\* an And node handled as an Or node is
AndRuleAsOr(r, p) == r \o p

\* how Pi combines the reason lists of two children of an And node
AndRule(r, p) == prod_cart(r, p)

\* how Pi combines the reason lists of two children of an Or node
OrRule(r, p) == r \o p

\* Pi without its last statement
PiResultKept(r) == r

\* the last statement of Pi
PiResult(r) == remove_subsumed(r)

RECURSIVE PiRec(_, _, _), PiKids(_, _, _, _, _)
\* Pi(decision, i) on the view V; fuel is the recursion depth left
PiRec(V, i, fuel) ==
  IF fuel = 0 THEN PiErr("RecursionError")
  ELSE IF ~InRange(V.label, i) THEN PiErr("IndexError")
  ELSE
    LET lab  == At(V.label, i)
        kids == At(V.children, i)
        raw  ==
          IF lab = <<"F">> THEN PiOk(<<>>)
          ELSE IF lab = <<"T">> THEN PiOk(<<{}>>)
          ELSE IF lab = <<"A">> \/ (lab # <<"A">> /\ Len(lab) > 0 /\ lab[1] = "O")
            THEN IF ~InRange(V.children, i) THEN PiErr("IndexError")
                 ELSE IF Len(kids) = 0 THEN PiErr("IndexError")
                 ELSE PiKids(V, kids, Len(kids), lab = <<"A">>, fuel)
          ELSE IF Len(lab) = 0 THEN PiErr("IndexError")
          ELSE IF ~CanInt(lab) THEN PiErr("ValueError")
          ELSE PiOk(<<{int(lab)}>>)
    IN IF raw.err # NoError THEN raw ELSE PiOk(PiResult(raw.r))

\* r after the children kids[1..n] have been combined, first to last
PiKids(V, kids, n, isAnd, fuel) ==
  IF n = 1 THEN PiRec(V, kids[1], fuel - 1)
  ELSE
    LET acc == PiKids(V, kids, n - 1, isAnd, fuel) IN
    IF acc.err # NoError THEN acc
    ELSE
      LET p == PiRec(V, kids[n], fuel - 1) IN
      IF p.err # NoError THEN p
      ELSE PiOk(IF isAnd THEN AndRule(acc.r, p.r) ELSE OrRule(acc.r, p.r))

\* the recursion depth a circuit without a cycle can need
Fuel(V) == Len(V.label) + 1

\* Pi(decision, i)
Pi(V, i) == PiRec(V, i, Fuel(V))

(***************************************************************************)
(* is_satisfiable.                                                         *)
(***************************************************************************)
SatOk(b) == [err |-> NoError, b |-> b]

SatErr(e) == [err |-> e, b |-> FALSE]

\* is_satisfiable taking only the constant T for true
LeafSatOnlyT(lab) == lab[1] = "T"

\* the value is_satisfiable gives a leaf that is neither F, A nor O
LeafSat(lab) == TRUE

RECURSIVE SatRec(_, _, _), SatKids(_, _, _, _, _)
SatRec(V, i, fuel) ==
  IF fuel = 0 THEN SatErr("RecursionError")
  ELSE IF ~InRange(V.label, i) THEN SatErr("IndexError")
  ELSE
    LET lab  == At(V.label, i)
        kids == At(V.children, i)
    IN
    IF Len(lab) = 0 THEN SatErr("IndexError")
    ELSE IF lab[1] = "F" THEN SatOk(FALSE)
    ELSE IF lab[1] \in {"A", "O"}
      THEN IF ~InRange(V.children, i) THEN SatErr("IndexError")
           ELSE IF Len(kids) = 0 THEN SatErr("IndexError")
           ELSE SatKids(V, kids, Len(kids), lab[1] = "A", fuel)
    ELSE SatOk(LeafSat(lab))

\* boolean after the children kids[1..n], first to last: in
\* boolean = boolean and/or is_satisfiable(...) the call is skipped when the
\* left operand already decides
SatKids(V, kids, n, isAnd, fuel) ==
  IF n = 1 THEN SatRec(V, kids[1], fuel - 1)
  ELSE
    LET acc == SatKids(V, kids, n - 1, isAnd, fuel) IN
    IF acc.err # NoError THEN acc
    ELSE IF acc.b # isAnd THEN acc
    ELSE SatRec(V, kids[n], fuel - 1)

\* is_satisfiable(decision, i)
is_satisfiable(V, i) == SatRec(V, i, Fuel(V))

(***************************************************************************)
(* The pure transforms negate, quantify and condition.  Each builds a new *)
(* dDNNF(v): a new children list and a new label list; the entries of the *)
(* new children list are the list objects of the input circuit.            *)
(***************************************************************************)
LabOk(lab) == [err |-> NoError, lab |-> lab]

LabErr(e) == [err |-> e, lab |-> <<>>]

CircOk(c) == [err |-> NoError, circ |-> c]

CircErr(e) == [err |-> e, circ |-> NoCircuit]

\* the copy loop reading children[i - 1] in place of children[i]
CopyChildrenShifted(c) ==
  [n \in 1..Len(c.label) |-> c.children[IF n = 1 THEN Len(c.label) ELSE n - 1]]

\* negated_decision.children[i] = decision.children[i], for i in range(v)
CopyChildren(c) == [n \in 1..Len(c.label) |-> c.children[n]]

\* negate copying the literal leaves
NegateLabelKeepLiterals(lab) ==
  IF Len(lab) = 0 THEN LabErr("IndexError")
  ELSE IF lab[1] = "T" THEN LabOk(<<"F">>)
  ELSE IF lab[1] = "F" THEN LabOk(<<"T">>)
  ELSE IF lab[1] = "A" THEN LabOk(<<"O">>)
  ELSE IF lab[1] = "O" THEN LabOk(<<"A">>)
  ELSE IF ~CanInt(lab) THEN LabErr("ValueError")
  ELSE LabOk(lab)

\* the label negate gives a node
NegateLabel(lab) ==
  IF Len(lab) = 0 THEN LabErr("IndexError")
  ELSE IF lab[1] = "T" THEN LabOk(<<"F">>)
  ELSE IF lab[1] = "F" THEN LabOk(<<"T">>)
  ELSE IF lab[1] = "A" THEN LabOk(<<"O">>)
  ELSE IF lab[1] = "O" THEN LabOk(<<"A">>)
  ELSE IF ~CanInt(lab) THEN LabErr("ValueError")
  ELSE LabOk(str(0 - int(lab)))

\* quantify replacing the literals of the variables a does not mark
QuantifyLabelUnmarked(lab, a) ==
  IF Len(lab) = 0 THEN LabErr("IndexError")
  ELSE IF lab[1] \in NodeTags THEN LabOk(lab)
  ELSE IF ~CanInt(lab) THEN LabErr("ValueError")
  ELSE IF ~InRange(a, abs(int(lab)) - 1) THEN LabErr("IndexError")
  ELSE IF ~Truthy(At(a, abs(int(lab)) - 1)) THEN LabOk(<<"T">>)
  ELSE LabOk(lab)

\* quantify replacing the positive literals only
QuantifyLabelPositiveOnly(lab, a) ==
  IF Len(lab) = 0 THEN LabErr("IndexError")
  ELSE IF lab[1] \in NodeTags THEN LabOk(lab)
  ELSE IF ~CanInt(lab) THEN LabErr("ValueError")
  ELSE IF ~InRange(a, abs(int(lab)) - 1) THEN LabErr("IndexError")
  ELSE IF Truthy(At(a, abs(int(lab)) - 1)) /\ int(lab) > 0 THEN LabOk(<<"T">>)
  ELSE LabOk(lab)

\* the label quantify gives a node
QuantifyLabel(lab, a) ==
  IF Len(lab) = 0 THEN LabErr("IndexError")
  ELSE IF lab[1] \in NodeTags THEN LabOk(lab)
  ELSE IF ~CanInt(lab) THEN LabErr("ValueError")
  ELSE IF ~InRange(a, abs(int(lab)) - 1) THEN LabErr("IndexError")
  ELSE IF Truthy(At(a, abs(int(lab)) - 1)) THEN LabOk(<<"T">>)
  ELSE LabOk(lab)

\* condition taking a[y] for the value of the literal whatever its sign
ConditionLabelUnsigned(lab, a) ==
  IF Len(lab) = 0 THEN LabErr("IndexError")
  ELSE IF lab[1] \in NodeTags THEN LabOk(lab)
  ELSE IF ~CanInt(lab) THEN LabErr("ValueError")
  ELSE IF InDict(a, abs(int(lab)))
    THEN IF DictGet(a, abs(int(lab))) THEN LabOk(<<"T">>) ELSE LabOk(<<"F">>)
    ELSE LabOk(lab)

\* condition reading a variable that is no key of a as false
ConditionLabelTotal(lab, a) ==
  IF Len(lab) = 0 THEN LabErr("IndexError")
  ELSE IF lab[1] \in NodeTags THEN LabOk(lab)
  ELSE IF ~CanInt(lab) THEN LabErr("ValueError")
  ELSE IF (int(lab) > 0) = (InDict(a, abs(int(lab))) /\ DictGet(a, abs(int(lab))))
    THEN LabOk(<<"T">>)
    ELSE LabOk(<<"F">>)

\* condition giving F where the sign agrees and T where it does not
ConditionLabelSwapped(lab, a) ==
  IF Len(lab) = 0 THEN LabErr("IndexError")
  ELSE IF lab[1] \in NodeTags THEN LabOk(lab)
  ELSE IF ~CanInt(lab) THEN LabErr("ValueError")
  ELSE IF InDict(a, abs(int(lab)))
    THEN IF (int(lab) > 0) = DictGet(a, abs(int(lab)))
           THEN LabOk(<<"F">>)
           ELSE LabOk(<<"T">>)
    ELSE LabOk(lab)

\* the label condition gives a node
ConditionLabel(lab, a) ==
  IF Len(lab) = 0 THEN LabErr("IndexError")
  ELSE IF lab[1] \in NodeTags THEN LabOk(lab)
  ELSE IF ~CanInt(lab) THEN LabErr("ValueError")
  ELSE
    LET x == int(lab)
        y == abs(x)
    IN
    IF InDict(a, y)
      THEN IF (x > 0 /\ DictGet(a, y)) \/ (x < 0 /\ ~DictGet(a, y))
             THEN LabOk(<<"T">>)
             ELSE LabOk(<<"F">>)
      ELSE LabOk(lab)

\* a transform whose loop over range(len(decision.label)) gives node n the
\* label labs[n]: the first exception raised, or the circuit returned
Relabel(c, labs) ==
  IF Len(c.children) < Len(c.label) THEN CircErr("IndexError")
  ELSE IF \E n \in 1..Len(c.label) : labs[n].err # NoError
    THEN CircErr(labs[CHOOSE n \in 1..Len(c.label) :
                    /\ labs[n].err # NoError
                    /\ \A k \in 1..(n - 1) : labs[k].err = NoError].err)
  ELSE CircOk(dDNNF(CopyChildren(c), [n \in 1..Len(c.label) |-> labs[n].lab]))

negate(c) == Relabel(c, [n \in 1..Len(c.label) |-> NegateLabel(c.label[n])])

quantify(c, a) == Relabel(c, [n \in 1..Len(c.label) |-> QuantifyLabel(c.label[n], a)])

condition(c, a) == Relabel(c, [n \in 1..Len(c.label) |-> ConditionLabel(c.label[n], a)])

(***************************************************************************)
(* The queries.                                                            *)
(***************************************************************************)
\* is_satisfiable(condition(decision, a))
SatCondition(h, c, a) ==
  LET cd == condition(c, a) IN
  IF cd.err # NoError THEN SatErr(cd.err) ELSE is_satisfiable(View(h, cd.circ), 0)

SetOk(s) == [err |-> NoError, s |-> s]

SetErr(e) == [err |-> e, s |-> {}]

\* necessary_property(decision, m)
necessary_property(h, c, m) ==
  LET pos(i) == SatCondition(h, c, <<<<i, FALSE>>>>)
      neg(i) == SatCondition(h, c, <<<<i, TRUE>>>>)
  IN
  IF \E i \in 1..m : pos(i).err # NoError \/ neg(i).err # NoError
    THEN SetErr("IndexError")
    ELSE SetOk({i \in 1..m : ~pos(i).b} \cup {0 - i : i \in {k \in 1..m : ~neg(k).b}})

\* the elements of a finite set of integers, in increasing order
RECURSIVE Sorted(_)
Sorted(S) ==
  IF S = {} THEN <<>>
  ELSE LET least == CHOOSE x \in S : \A y \in S : x <= y
       IN  <<least>> \o Sorted(S \ {least})

\* a = {abs(x): x < 0 for x in necessary_prop}; when x and -x are both in
\* the set the value kept is that of the one iterated last, given by pick
ReasonDict(np, pick) ==
  LET keys == Sorted({abs(x) : x \in np}) IN
  [k \in 1..Len(keys) |->
     <<keys[k], IF keys[k] \in np /\ (0 - keys[k]) \in np THEN pick
                ELSE (0 - keys[k]) \in np>>]

\* necessary_Reason(decision, m)
necessary_Reason(h, c, m, pick) ==
  LET np == necessary_property(h, c, m) IN
  IF np.err # NoError THEN np
  ELSE
    LET cd == SatCondition(h, c, ReasonDict(np.s, pick)) IN
    IF cd.err # NoError THEN SetErr(cd.err)
    ELSE IF ~cd.b THEN SetOk(np.s) ELSE SetOk({})

\* the loop of because_t returning after its first entry
BecauseLoopFirstEntry(h, c, t, n) ==
  IF n > Len(t) THEN SatOk(TRUE)
  ELSE
    LET s == SatCondition(h, c, <<<<t[n][1], ~t[n][2]>>>>) IN
    IF s.err # NoError THEN s ELSE SatOk(~s.b)

\* the loop `for (c, v) in t.items()` of because_t from entry n on
RECURSIVE BecauseLoop(_, _, _, _)
BecauseLoop(h, c, t, n) ==
  IF n > Len(t) THEN SatOk(TRUE)
  ELSE
    LET s == SatCondition(h, c, <<<<t[n][1], ~t[n][2]>>>>) IN
    IF s.err # NoError THEN s
    ELSE IF s.b THEN SatOk(FALSE)
    ELSE BecauseLoop(h, c, t, n + 1)

\* because_t(decision, t)
because_t(h, c, t) ==
  LET nd == negate(c) IN
  IF nd.err # NoError THEN SatErr(nd.err)
  ELSE
    LET s == SatCondition(h, nd.circ, t) IN
    IF s.err # NoError THEN s
    ELSE IF s.b THEN SatOk(FALSE)
    ELSE BecauseLoop(h, c, t, 1)

\* decision_bias(decision, unprotected_vars)
decision_bias(h, c, u) ==
  LET qd == quantify(c, u) IN
  IF qd.err # NoError THEN SatErr(qd.err)
  ELSE
    LET nd == negate(qd.circ) IN
    IF nd.err # NoError THEN SatErr(nd.err)
    ELSE is_satisfiable(View(h, nd.circ), 0)

\* the list a copied without flipping
PerturbNothing(a, p) == a

\* b = [a[i] if (i + 1 not in p) else 1 - a[i] for i in range(len(a))]
Perturb(a, p) == [n \in 1..Len(a) |-> IF n \notin p THEN a[n] ELSE 1 - a[n]]

\* the copy evenIf_because_t makes of the circuit it is given
CopyCircuit(c) == dDNNF(CopyChildren(c), [n \in 1..Len(c.label) |-> c.label[n]])

\* evenIf_because_t(decision, a, t, p): its result, and the heap it leaves
\* (the list objects it allocated are unreachable after it returns)
evenIf_because_t(h, c, a, t, p) ==
  LET db == CopyCircuit(c)
      b  == Perturb(a, p)
      s1 == consensus(h, db)
      s2 == filter(s1.heap, dDNNF(s1.children, s1.label), b)
      left(hp) == SubSeq(hp, 1, Len(h))
  IN
  IF s1.err # NoError THEN [err |-> s1.err, b |-> FALSE, heap |-> left(s1.heap)]
  ELSE IF s2.err # NoError THEN [err |-> s2.err, b |-> FALSE, heap |-> left(s2.heap)]
  ELSE
    LET r == because_t(s2.heap, dDNNF(s2.children, s2.label), t) IN
    [err |-> r.err, b |-> r.b, heap |-> left(s2.heap)]

(***************************************************************************)
(* The .nnf files the circuits are loaded from, in c2d's format: a node   *)
(* refers to nodes on earlier lines, the last line is the root.  With     *)
(* each file, the arguments the operations are called with on it.         *)
(***************************************************************************)
\* all instances over m variables, as lists of 0/1
AllInstances(m) == [1..m -> {0, 1}]

\* the dicts with at most one key among vs, and the dicts of ts
Dicts(vs, ts) ==
  {<<>>} \cup {<<<<v, b>>>> : v \in vs, b \in BOOLEAN} \cup ts

\* the instance over m variables whose true variables are those of s
InstanceOf(m, s) == [n \in 1..m |-> IF n \in s THEN 1 ELSE 0]

\* (C and ((F and (G or W)) or (not F and R))) or (G and R and W) with
\* C = 1, F = 2, G = 3, R = 4, W = 5, decided on C, F, G: 16 nodes, 18 edges
AdmissionNNF ==
  NNF(16, << <<"L", 3>>, <<"L", -3>>, <<"L", 5>>, <<"A", 2, 1, 2>>,
             <<"O", 3, 2, 0, 3>>, <<"L", 2>>, <<"A", 2, 5, 4>>, <<"L", -2>>,
             <<"L", 4>>, <<"A", 2, 7, 8>>, <<"O", 2, 2, 6, 9>>, <<"L", 1>>,
             <<"A", 2, 11, 10>>, <<"L", -1>>, <<"A", 4, 13, 0, 8, 2>>,
             <<"O", 1, 2, 12, 14>> >>)

scott == <<1, 0, 1, 1, 1>>

robin == <<1, 1, 1, 1, 1>>

april == <<1, 1, 1, 0, 1>>

\* scott with R flipped
scott_flipped == <<1, 0, 1, 0, 1>>

\* (1 and 2) or (not 1 and 3), decided on 1
IteNNF ==
  NNF(7, << <<"L", 2>>, <<"L", 1>>, <<"A", 2, 1, 0>>, <<"L", 3>>,
            <<"L", -1>>, <<"A", 2, 4, 3>>, <<"O", 1, 2, 2, 5>> >>)

\* 1 or 2, decided on 1: one child of the Or node is a literal leaf
OrNNF ==
  NNF(5, << <<"L", 1>>, <<"L", -1>>, <<"L", 2>>, <<"A", 2, 1, 2>>,
            <<"O", 1, 2, 0, 3>> >>)

\* 1 or not 1: both children of the Or node are literal leaves
TautNNF == NNF(3, << <<"L", 1>>, <<"L", -1>>, <<"O", 1, 2, 0, 1>> >>)

\* the constant circuits
TrueNNF == NNF(1, << <<"A", 0>> >>)

FalseNNF == NNF(1, << <<"O", 0, 0>> >>)

\* (10 and 1) or (not 10 and 1), decided on variable 10
WideNNF ==
  NNF(6, << <<"L", 1>>, <<"L", 10>>, <<"L", -10>>, <<"A", 2, 1, 0>>,
            <<"A", 2, 2, 0>>, <<"O", 10, 2, 3, 4>> >>)

\* 10 or 1, decided on variable 10: one child of the Or node is a literal leaf
WideOrNNF ==
  NNF(5, << <<"L", 10>>, <<"L", -10>>, <<"L", 1>>, <<"A", 2, 1, 2>>,
            <<"O", 10, 2, 0, 3>> >>)

\* the negation of the admission formula, decided on C, F, G, R
NegAdmissionNNF ==
  NNF(19, << <<"L", -5>>, <<"L", 4>>, <<"A", 2, 1, 0>>, <<"L", -4>>,
             <<"O", 4, 2, 3, 2>>, <<"L", 3>>, <<"A", 2, 5, 4>>, <<"L", -3>>,
             <<"O", 3, 2, 7, 6>>, <<"L", -1>>, <<"A", 2, 9, 8>>, <<"L", -2>>,
             <<"A", 2, 11, 3>>, <<"L", 2>>, <<"A", 3, 13, 7, 0>>,
             <<"O", 2, 2, 14, 12>>, <<"L", 1>>, <<"A", 2, 16, 15>>,
             <<"O", 1, 2, 17, 10>> >>)

\* a header without a node count
NoCountNNF == [header |-> << <<"n", "n", "f">> >>, lines |-> << Tokens(<<"L", 1>>) >>]

\* a header whose node count is no integer
BadCountNNF ==
  [header |-> << <<"n", "n", "f">>, <<"x">>, str(0), str(1) >>,
   lines  |-> << Tokens(<<"L", 1>>) >>]

\* an empty file
EmptyNNF == [header |-> << <<>> >>, lines |-> <<>>]

\* a node line with the tag X
UnknownTagNNF ==
  [header |-> NNF(2, <<>>).header,
   lines  |-> << <<<<"X">>, str(2)>>, Tokens(<<"A", 1, 0>>) >>]

\* fewer node lines than the header declares
ShortNNF == [header |-> NNF(3, <<>>).header,
             lines  |-> << Tokens(<<"L", 1>>), Tokens(<<"A", 1, 0>>) >>]

\* an And line that lists fewer children than it declares
ShortLineNNF == [header |-> NNF(2, <<>>).header,
                 lines  |-> << Tokens(<<"L", 1>>), Tokens(<<"A", 2, 0>>) >>]

Input(nnf, m, ops, insts, quants, conds, eis, ts, ps) ==
  [nnf |-> nnf, m |-> m, ops |-> ops, insts |-> insts, quants |-> quants,
   conds |-> conds, eis |-> eis, ts |-> ts, ps |-> ps]

\* for each file: the number of variables m, the number of operations
\* applied to it, the instances filter(d, .) is
\* given, the vectors quantify is given, the dicts condition is given, and
\* the instances (also given to filter(t, .)), the dicts t and the sets p
\* evenIf_because_t is given
Catalogue ==
  << Input(AdmissionNNF, 5, MaxOpsAdmission, {scott, robin, april, scott_flipped},
           {<<1, 1, 1, 0, 1>>},
           Dicts({4}, {}),
           {april},
           {<< <<1, TRUE>>, <<3, TRUE>>, <<2, TRUE>> >>, << <<1, TRUE>>, <<2, TRUE>> >>},
           {{5}, {4}}),
     Input(IteNNF, 3, MaxOps, AllInstances(3),
           {<<1, 0, 0>>, <<0, 1, 1>>},
           Dicts(1..3, {}),
           {<<1, 1, 0>>},
           {<< <<2, TRUE>>, <<3, TRUE>> >>, << <<1, TRUE>>, <<2, TRUE>> >>},
           {{}, {3}}),
     Input(OrNNF, 2, MaxOps, AllInstances(2),
           {<<1, 0>>, <<0, 1>>},
           Dicts(1..2, {}),
           {<<1, 1>>},
           {<< <<1, TRUE>> >>, << <<2, TRUE>> >>},
           {{}, {1}}),
     Input(TautNNF, 1, MaxOps, AllInstances(1), {<<1>>, <<0>>}, Dicts(1..1, {}),
           {<<1>>}, {<<>>, << <<1, TRUE>> >>}, {{}, {1}}),
     Input(TrueNNF, 1, MaxOps, AllInstances(1), {<<1>>}, Dicts(1..1, {}),
           {<<1>>}, {<<>>}, {{}}),
     Input(FalseNNF, 1, MaxOps, AllInstances(1), {<<1>>}, Dicts(1..1, {}),
           {<<1>>}, {<<>>}, {{}}),
     Input(WideNNF, 10, MaxOps,
           {InstanceOf(10, {1, 10}), InstanceOf(10, {1}), InstanceOf(10, {10})},
           {InstanceOf(10, {10})},
           Dicts({1, 10}, {}),
           {InstanceOf(10, {1, 10})},
           {<< <<1, TRUE>> >>},
           {{}, {10}}),
     Input(UnknownTagNNF, 2, MaxOps, AllInstances(2), {<<0, 1>>}, Dicts(1..2, {}),
           {<<1, 1>>}, {<< <<2, TRUE>> >>}, {{}}),
     Input(NoCountNNF, 1, MaxOps, {}, {}, {}, {}, {}, {}),
     Input(BadCountNNF, 1, MaxOps, {}, {}, {}, {}, {}, {}),
     Input(EmptyNNF, 1, MaxOps, {}, {}, {}, {}, {}, {}),
     Input(ShortNNF, 1, MaxOps, {}, {}, {}, {}, {}, {}),
     Input(ShortLineNNF, 1, MaxOps, {}, {}, {}, {}, {}, {}),
     Input(WideOrNNF, 10, MaxOps,
           {InstanceOf(10, {}), InstanceOf(10, {1}), InstanceOf(10, {10})},
           {InstanceOf(10, {10})},
           Dicts({1, 10}, {}),
           {InstanceOf(10, {1})},
           {<< <<1, TRUE>> >>, << <<10, FALSE>> >>},
           {{}}),
     Input(NegAdmissionNNF, 5, MaxOpsAdmission, {scott_flipped}, {}, {}, {},
           {<< <<2, FALSE>>, <<4, FALSE>> >>, << <<2, FALSE>> >>}, {}) >>

(***************************************************************************)
(* The state.                                                              *)
(*   heap  the list objects that are child lists                           *)
(*   circ  the circuits in scope: d, the loaded circuit, and t, the        *)
(*         result of the last transform of d (NoCircuit before)            *)
(*   file  the catalogue entry d was loaded from                           *)
(*   hist  what has been run: phase is "loaded" after the load,            *)
(*         "consensus" once consensus(d) has returned on the loaded        *)
(*         circuit, "decision" once filter(d, inst) has returned after     *)
(*         it, "consensus twice" and "filtered twice" likewise when        *)
(*         consensus(d) was run twice, "queried" while evenIf_because_t   *)
(*         is all that was run on the loaded circuit, and "other" as      *)
(*         soon as the in-place                                            *)
(*         procedures were run in any other way or one of them raised;    *)
(*         last is the operation run last, on the circuit it was given    *)
(*         and args its other arguments; n counts the operations that     *)
(*         build or change a circuit (the queries on a decision circuit   *)
(*         are not counted)                                                *)
(*   ret   the outcome of the operation run last                           *)
(***************************************************************************)
Slots == {"d", "t"}

NoInstance == <<>>

\* val is the text shown for a result that is None or a Boolean, and lits
\* is the result when it is a set of literals
Outcome(err, val) == [err |-> err, val |-> val, lits |-> {}]

\* the arguments of a call besides the circuit: the list a (an instance or
\* the vector of unprotected variables), the dict t, the set p, the number m
Args(a, t, p, m) == [a |-> a, t |-> t, p |-> p, m |-> m]

NoArgs == Args(<<>>, <<>>, {}, 0)

Hist(phase, inst, last, on, n) ==
  [phase |-> phase, inst |-> inst, last |-> last, on |-> on, n |-> n,
   args |-> NoArgs]

\* the text the notebook shows for a Boolean result
Shown(b) == IF b THEN "True" ELSE "False"

Bound(c) == Len(c.label) > 0

Init ==
  /\ file \in 1..Len(Catalogue)
  /\ heap = FileToDDNNF(Catalogue[file].nnf).heap
  /\ circ = [d |-> FileToDDNNF(Catalogue[file].nnf).circ, t |-> NoCircuit]
  /\ hist = Hist(IF FileToDDNNF(Catalogue[file].nnf).err = NoError
                    THEN "loaded" ELSE "other",
                  NoInstance, "file_to_dDNNF", "d", 0)
  /\ ret = Outcome(FileToDDNNF(Catalogue[file].nnf).err, "None")

\* consensus(circ[s])
Consensus(s) ==
  /\ hist.n < Catalogue[file].ops
  /\ Bound(circ[s])
  /\ LET r == consensus(heap, circ[s]) IN
     /\ heap' = r.heap
     /\ circ' = [circ EXCEPT ![s] = dDNNF(r.children, r.label)]
     /\ ret' = Outcome(r.err, "None")
     /\ hist' = Hist(IF s = "d" /\ hist.phase = "loaded" /\ r.err = NoError
                       THEN "consensus"
                     ELSE IF s = "d" /\ hist.phase = "consensus" /\ r.err = NoError
                       THEN "consensus twice"
                     ELSE "other",
                     NoInstance, "consensus", s, hist.n + 1)
  /\ UNCHANGED file

\* filter(circ[s], a)
Filter(s, a) ==
  /\ hist.n < Catalogue[file].ops
  /\ Bound(circ[s])
  /\ LET r == filter(heap, circ[s], a) IN
     /\ heap' = r.heap
     /\ circ' = [circ EXCEPT ![s] = dDNNF(r.children, r.label)]
     /\ ret' = Outcome(r.err, "None")
     /\ hist' = IF s = "d" /\ hist.phase = "consensus" /\ r.err = NoError
                  THEN [Hist("decision", a, "filter", s, hist.n + 1)
                        EXCEPT !.args = Args(a, <<>>, {}, 0)]
                  ELSE IF s = "d" /\ hist.phase = "consensus twice" /\ r.err = NoError
                    THEN [Hist("filtered twice", a, "filter", s, hist.n + 1)
                          EXCEPT !.args = Args(a, <<>>, {}, 0)]
                  ELSE IF s = "t"
                    THEN [Hist(hist.phase, hist.inst, "filter", s, hist.n + 1)
                          EXCEPT !.args = Args(a, <<>>, {}, 0)]
                    ELSE [Hist("other", NoInstance, "filter", s, hist.n + 1)
                          EXCEPT !.args = Args(a, <<>>, {}, 0)]
  /\ UNCHANGED file

\* t = op(d) for a transform whose result is r
Transform(name, args, r) ==
  /\ hist.n < Catalogue[file].ops
  /\ Bound(circ.d)
  /\ circ' = IF r.err = NoError THEN [circ EXCEPT !.t = r.circ] ELSE circ
  /\ ret' = Outcome(r.err, "None")
  /\ hist' = [Hist(hist.phase, hist.inst, name, "d", hist.n + 1)
               EXCEPT !.args = args]
  /\ UNCHANGED <<heap, file>>

Negate == Transform("negate", NoArgs, negate(circ.d))

Quantify(a) == Transform("quantify", Args(a, <<>>, {}, 0), quantify(circ.d, a))

Condition(a) == Transform("condition", Args(<<>>, a, {}, 0), condition(circ.d, a))

\* evenIf_because_t(d, a, t, p), called with the circuit as loaded
EvenIfBecause(a, t, p) ==
  /\ hist.n < Catalogue[file].ops
  /\ hist.phase \in {"loaded", "queried"}
  /\ LET r == evenIf_because_t(heap, circ.d, a, t, p) IN
     /\ heap' = r.heap
     /\ ret' = Outcome(r.err, IF r.err # NoError THEN "None" ELSE Shown(r.b))
  /\ hist' = [Hist("queried", NoInstance, "evenIf_because_t", "d", hist.n + 1)
               EXCEPT !.args = Args(a, t, p, 0)]
  /\ UNCHANGED <<circ, file>>

\* a query on the decision circuit d: it returns r and changes no circuit
Query(name, args, err, val, lits) ==
  /\ hist.phase = "decision"
  /\ ret' = [Outcome(err, IF err # NoError THEN "None" ELSE val)
              EXCEPT !.lits = IF err # NoError THEN {} ELSE lits]
  /\ hist' = [hist EXCEPT !.last = name, !.on = "d", !.args = args]
  /\ UNCHANGED <<heap, circ, file>>

\* necessary_Reason(d, m)
NecessaryReason(pick) ==
  LET r == necessary_Reason(heap, circ.d, Catalogue[file].m, pick)
  IN  Query("necessary_Reason", Args(<<>>, <<>>, {}, Catalogue[file].m), r.err, "set", r.s)

\* because_t(d, t)
BecauseT(t) ==
  LET r == because_t(heap, circ.d, t)
  IN  Query("because_t", Args(<<>>, t, {}, 0), r.err, Shown(r.b), {})

\* decision_bias(d, u)
DecisionBias(u) ==
  LET r == decision_bias(heap, circ.d, u)
  IN  Query("decision_bias", Args(u, <<>>, {}, 0), r.err, Shown(r.b), {})

Next ==
  \/ \E s \in Slots : Consensus(s)
  \/ \E a \in Catalogue[file].insts : Filter("d", a)
  \/ \E a \in Catalogue[file].eis : Filter("t", a)
  \/ Negate
  \/ \E a \in Catalogue[file].quants : Quantify(a)
  \/ \E a \in Catalogue[file].conds : Condition(a)
  \/ \E a \in Catalogue[file].eis : \E t \in Catalogue[file].ts :
       \E p \in Catalogue[file].ps : EvenIfBecause(a, t, p)
  \/ \E pick \in BOOLEAN : NecessaryReason(pick)
  \/ \E t \in Catalogue[file].ts : BecauseT(t)
  \/ \E u \in Catalogue[file].quants : DecisionBias(u)

Spec == Init /\ [][Next]_vars

(***************************************************************************)
(* What the claims speak of.                                               *)
(***************************************************************************)
\* the circuits in scope, as a reader sees them
D == View(heap, circ.d)

T == View(heap, circ.t)

Seen(s) == View(heap, circ[s])

\* the circuit as file_to_dDNNF returned it
Loaded ==
  View(FileToDDNNF(Catalogue[file].nnf).heap, FileToDDNNF(Catalogue[file].nnf).circ)

Nodes(V) == 0..(Len(V.label) - 1)

Range(r) == {r[n] : n \in 1..Len(r)}

IsLiteral(lab) == Len(lab) > 0 /\ lab[1] \notin NodeTags

\* the variables of the literal leaves of a circuit
VarsOf(V) == {abs(int(V.label[n])) : n \in {k \in 1..Len(V.label) : IsLiteral(V.label[k])}}

\* the Boolean function of node i of a circuit: its value under the full
\* assignment s, a function from variables to BOOLEAN
RECURSIVE Holds(_, _, _)
Holds(V, i, s) ==
  LET lab == At(V.label, i) IN
  IF lab[1] = "T" THEN TRUE
  ELSE IF lab[1] = "F" THEN FALSE
  ELSE IF lab[1] = "A" THEN \A n \in 1..Len(At(V.children, i)) : Holds(V, At(V.children, i)[n], s)
  ELSE IF lab[1] = "O" THEN \E n \in 1..Len(At(V.children, i)) : Holds(V, At(V.children, i)[n], s)
  ELSE s[abs(int(lab))] = (int(lab) > 0)

\* the instance a as a full assignment of the variables vs
AsAssignment(a, vs) == [v \in vs |-> Truthy(a[v])]

\* the literals of instance a over the variables vs
LiteralsOf(a, vs) == {IF Truthy(a[v]) THEN v ELSE 0 - v : v \in vs}

\* every full assignment agreeing with the literals S satisfies the circuit
Forces(V, S) ==
  \A s \in [VarsOf(V) -> BOOLEAN] :
    (\A l \in S : s[abs(l)] = (l > 0)) => Holds(V, 0, s)

\* the sufficient reasons of the decision of circuit V on instance a: the
\* subset-minimal sets of literals of a that force V.  A variable V does
\* not mention is in no minimal set, and Forces is monotone in S, so it is
\* enough to range over the variables of V and to drop one literal.
SufficientReasons(V, a) ==
  {S \in SUBSET LiteralsOf(a, VarsOf(V)) :
     Forces(V, S) /\ \A l \in S : ~Forces(V, S \ {l})}

\* d is the decision circuit of an instance: loaded, then consensus, then
\* filter, and no other in-place procedure run
IsDecision == hist.phase = "decision"

\* d is the decision circuit of instance a of the file at place f
DecisionOf(f, a) == IsDecision /\ file = f /\ hist.inst = a

\* the place of the admission circuit in the catalogue
AdmissionFile == CHOOSE f \in 1..Len(Catalogue) : Catalogue[f].nnf = AdmissionNNF

\* Pi(d) returned the reasons rs, in some order
PiIs(V, rs) == Pi(V, 0).err = NoError /\ Range(Pi(V, 0).r) = rs

\* C1: for every Decision-DNNF circuit (any positive variable ids) and every
\* instance a it accepts, Pi(root) after consensus then filter(a) is exactly
\* the set of sufficient reasons of the decision.
C1_PiIsTheSufficientReasons ==
  (IsDecision /\ Holds(Loaded, 0, AsAssignment(hist.inst, VarsOf(Loaded))))
    => PiIs(D, SufficientReasons(Loaded, hist.inst))

\* C2: on the admission circuit, Pi after consensus then filter returns
\* {{-2,1,4},{1,3,4},{1,4,5},{3,4,5}} for Scott and
\* {{1,2,3},{1,2,5},{1,3,4},{1,4,5},{3,4,5}} for Robin.
C2_AdmissionReasons ==
  /\ DecisionOf(AdmissionFile, scott)
       => PiIs(D, {{-2, 1, 4}, {1, 3, 4}, {1, 4, 5}, {3, 4, 5}})
  /\ DecisionOf(AdmissionFile, robin)
       => PiIs(D, {{1, 2, 3}, {1, 2, 5}, {1, 3, 4}, {1, 4, 5}, {3, 4, 5}})

\* Robin's decision circuit has been built and Pi returns five reasons on it
C2_Witness ==
  /\ DecisionOf(AdmissionFile, robin)
  /\ Pi(D, 0).err = NoError
  /\ Len(Pi(D, 0).r) = Cardinality({{1, 2, 3}, {1, 2, 5}, {1, 3, 4}, {1, 4, 5}, {3, 4, 5}})

\* no reason of the list r is a strict superset of another, and no two
\* entries are equal
Irredundant(r) ==
  \A n, k \in 1..Len(r) : n # k => ~(r[k] \subseteq r[n])

\* C3: for every circuit and node i, the list Pi returns has no reason that
\* is a strict superset of another and no two equal reasons.
C3_PiIrredundant ==
  \A s \in Slots :
    LET V == Seen(s) IN
    \A i \in Nodes(V) :
      LET p == Pi(V, i) IN p.err = NoError => Irredundant(p.r)

\* the reason lists of the children of node i, concatenated
RECURSIVE KidReasons(_, _, _)
KidReasons(V, kids, n) ==
  IF n > Len(kids) THEN <<>> ELSE Pi(V, kids[n]).r \o KidReasons(V, kids, n + 1)

\* an Or node of a circuit in scope whose children's reasons hold a
\* subsumed or repeated reason, which Pi of the node has dropped
C3_Witness ==
  \E s \in Slots : \E i \in Nodes(Seen(s)) :
    /\ At(Seen(s).label, i)[1] = "O"
    /\ Pi(Seen(s), i).err = NoError
    /\ ~Irredundant(KidReasons(Seen(s), At(Seen(s).children, i), 1))
    /\ Len(Pi(Seen(s), i).r) >= 2

\* C4: for every circuit and node i on which both return, is_satisfiable is
\* true if and only if Pi is a non-empty list.
C4_SatIffReasons ==
  \A s \in Slots :
    LET V == Seen(s) IN
    \A i \in Nodes(V) :
      LET p  == Pi(V, i)
          st == is_satisfiable(V, i)
      IN (p.err = NoError /\ st.err = NoError) => (st.b <=> Len(p.r) > 0)

\* a decision circuit with an And node that is unsatisfiable and has no
\* reason, under a root that is satisfiable and has reasons
C4_Witness ==
  /\ IsDecision
  /\ Pi(D, 0).err = NoError /\ is_satisfiable(D, 0).err = NoError
  /\ is_satisfiable(D, 0).b /\ Len(Pi(D, 0).r) > 0
  /\ \E i \in Nodes(D) :
       /\ At(D.label, i) = <<"A">>
       /\ Pi(D, i).err = NoError /\ is_satisfiable(D, i).err = NoError
       /\ ~is_satisfiable(D, i).b /\ Pi(D, i).r = <<>>

\* the unions of one reason per child, over the children kids[n..]
RECURSIVE Unions(_, _, _)
Unions(V, kids, n) ==
  IF n > Len(kids) THEN {{}}
  ELSE {r \cup q : r \in Range(Pi(V, kids[n]).r), q \in Unions(V, kids, n + 1)}

\* the subset-minimal elements of a set of sets
Minimal(ss) == {x \in ss : ~\E y \in ss : ProperSubset(y, x)}

\* an And node with at least one child on which Pi returns
AndNode(V, i) ==
  /\ At(V.label, i) = <<"A">>
  /\ Len(At(V.children, i)) >= 1
  /\ Pi(V, i).err = NoError

\* C5: Pi of an And node with at least one child is, as a set of sets, the
\* subset-minimal elements of the unions of one reason per child.
C5_AndIsMinimalProduct ==
  \A s \in Slots :
    LET V == Seen(s) IN
    \A i \in Nodes(V) :
      AndNode(V, i)
        => Range(Pi(V, i).r) = Minimal(Unions(V, At(V.children, i), 1))

\* an And node with three or more children whose unions are not all
\* minimal and which has more than one reason
C5_Witness ==
  \E s \in Slots : \E i \in Nodes(Seen(s)) :
    /\ AndNode(Seen(s), i)
    /\ Len(At(Seen(s).children, i)) >= 3
    /\ Cardinality(Range(Pi(Seen(s), i).r)) >= 2
    /\ Minimal(Unions(Seen(s), At(Seen(s).children, i), 1))
         # Unions(Seen(s), At(Seen(s).children, i), 1)

\* the last step was a call of one of the operations in names, and it is
\* the step from the unprimed to the primed state
Called(names) == hist'.last \in names /\ hist'.n = hist.n + 1

\* C6: for every circuit c, circuits with annotated Or(x) nodes included,
\* negate(negate(c)) has the same child lists and the same label at every
\* node as c.
C6_DoubleNegationIsIdentity ==
  \A s \in Slots :
    Bound(circ[s]) =>
      LET once == negate(circ[s]) IN
      once.err = NoError =>
        LET twice == negate(once.circ) IN
        /\ twice.err = NoError
        /\ View(heap, twice.circ) = Seen(s)

\* C7: after evenIf_because_t(decision, a, t, p) returns, the circuit passed
\* as decision has the same node count, labels and child lists as before
\* the call.  (The list a is an argument of the call and no variable of the
\* program holds it: the code builds b as a new list and never assigns to a.)
C7_EvenIfLeavesBaseUnchanged ==
  [][(Called({"evenIf_because_t"}) /\ ret'.err = NoError)
       => View(heap', circ'.d) = View(heap, circ.d)]_vars

\* the slot the last step did not work on
Other(s) == IF s = "d" THEN "t" ELSE "d"

\* C8: after t = negate(d), quantify(d, a) or condition(d, a), a later
\* consensus or filter on one of the two circuits leaves the labels and the
\* child lists of the other unchanged.
C8_NoSharedStateAfterTransform ==
  [][(Called({"consensus", "filter"}) /\ Bound(circ.t))
       => View(heap', circ'[Other(hist'.on)]) = View(heap, circ[Other(hist'.on)])]_vars

\* C9: negate, quantify and condition each return a circuit with the same
\* node count and, at every index, the same child list as the input, and
\* leave the input circuit's labels and child lists unchanged.
C9_TransformsKeepShape ==
  [][(Called({"negate", "quantify", "condition"}) /\ ret'.err = NoError)
       => /\ Len(circ'.t.label) = Len(circ.d.label)
          /\ Len(circ'.t.children) = Len(circ.d.label)
          /\ View(heap', circ'.t).children = View(heap, circ.d).children
          /\ View(heap', circ'.d) = View(heap, circ.d)]_vars

\* a transform has returned a circuit whose labels differ from its input's,
\* on an input with an inner node that has children
C9_Witness ==
  /\ hist.last \in {"negate", "quantify", "condition"}
  /\ ret.err = NoError
  /\ T.label # D.label
  /\ Len(T.label) = Len(D.label)
  /\ T.children = D.children
  /\ \E i \in Nodes(D) : Len(At(D.children, i)) >= 2

\* the literals that belong to every reason of the list r
InEveryReason(r) == {l \in UNION Range(r) : \A n \in 1..Len(r) : l \in r[n]}

\* m, the number of variables of the file in use
NumVars == Catalogue[file].m

\* C10: for a satisfiable decision circuit D = filter(consensus(Delta), a)
\* over variables 1..m on which Pi returns, necessary_property(D, m) is the
\* set of literals that belong to every reason in Pi(D); for April on the
\* admission circuit it is {1, 2}.
C10_NecessaryIsCommonToAllReasons ==
  /\ IsDecision =>
       LET p  == Pi(D, 0)
           st == is_satisfiable(D, 0)
           np == necessary_property(heap, circ.d, NumVars)
       IN (p.err = NoError /\ st.err = NoError /\ st.b)
            => (np.err = NoError /\ np.s = InEveryReason(p.r))
  /\ DecisionOf(AdmissionFile, april)
       => necessary_property(heap, circ.d, NumVars) = SetOk({1, 2})

\* April's decision circuit has been built: it is satisfiable, has more
\* than one reason, and the reasons have literals in common and literals
\* not in common
C10_Witness ==
  /\ DecisionOf(AdmissionFile, april)
  /\ is_satisfiable(D, 0) = SatOk(TRUE)
  /\ Len(Pi(D, 0).r) >= 2
  /\ InEveryReason(Pi(D, 0).r) # {}
  /\ InEveryReason(Pi(D, 0).r) # UNION Range(Pi(D, 0).r)

\* the query name was run last on the decision circuit d, with the
\* arguments args, and returned
Answered(name) == IsDecision /\ hist.last = name /\ ret.err = NoError

\* C11: necessary_Reason(D, m) returns the necessary property only when it
\* is the unique reason in Pi(D), and the empty set otherwise; in
\* particular it returns the empty set when Pi(D) has two or more reasons.
C11_NecessaryReasonOnlyIfUnique ==
  (Answered("necessary_Reason") /\ is_satisfiable(D, 0) = SatOk(TRUE)
     /\ Pi(D, 0).err = NoError)
    => LET np == necessary_property(heap, circ.d, NumVars).s IN
       /\ ret.lits = IF Range(Pi(D, 0).r) = {np} THEN np ELSE {}
       /\ Len(Pi(D, 0).r) >= 2 => ret.lits = {}

\* is_satisfiable(condition(c, a)) returned the Boolean b
SatConditionIs(c, a, b) == SatCondition(heap, c, a) = SatOk(b)

\* the dict {c: not v} for entry n of the dict t
Flipped(t, n) == <<<<t[n][1], ~t[n][2]>>>>

\* C12: because_t(D, t) returns true only if (a)
\* is_satisfiable(condition(negate(D), t)) is false and (b) for every entry
\* (c, v) of t, condition(D, {c: not v}) is satisfiable.
C12_BecauseNeedsFlipsSatisfiable ==
  (Answered("because_t") /\ ret.val = Shown(TRUE))
    => /\ SatConditionIs(negate(circ.d).circ, hist.args.t, FALSE)
       /\ \A n \in 1..Len(hist.args.t) :
            SatConditionIs(circ.d, Flipped(hist.args.t, n), TRUE)

\* the instance a with the value of every variable of p flipped
FlipAll(a, p) == [n \in 1..Len(a) |-> IF n \in p THEN (a[n] + 1) % 2 ELSE a[n]]

\* because_t(D_b, t) for D_b the decision circuit of b built from the
\* circuit of the file as loaded: consensus, then filter(., b)
BecauseOnFresh(b, t) ==
  LET base == FileToDDNNF(Catalogue[file].nnf)
      s1   == consensus(base.heap, base.circ)
      s2   == filter(s1.heap, dDNNF(s1.children, s1.label), b)
  IN  IF s1.err # NoError THEN SatErr(s1.err)
      ELSE IF s2.err # NoError THEN SatErr(s2.err)
      ELSE because_t(s2.heap, dDNNF(s2.children, s2.label), t)

\* evenIf_because_t was run last, on the circuit as loaded or after earlier
\* calls of evenIf_because_t only
EvenIfCalled == hist.last = "evenIf_because_t" /\ hist.phase = "queried"

\* C13: evenIf_because_t(Delta, a, t, p) returns because_t(D_b, t), where b
\* is a with the variables of p flipped and D_b is consensus then
\* filter(., b) on a copy of the base circuit; on the admission circuit
\* with a = [1,1,1,0,1], t = {1: True, 3: True, 2: True}, p = {5} it is true.
C13_EvenIfIsBecauseOnPerturbed ==
  EvenIfCalled =>
    LET r == BecauseOnFresh(FlipAll(hist.args.a, hist.args.p), hist.args.t) IN
    /\ ret.err = r.err
    /\ r.err = NoError => ret.val = Shown(r.b)
    /\ (file = AdmissionFile /\ hist.args.a = april /\ hist.args.p = {5}
          /\ hist.args.t = << <<1, TRUE>>, <<3, TRUE>>, <<2, TRUE>> >>)
         => ret = Outcome(NoError, Shown(TRUE))

\* the notebook's call on the admission circuit has returned, a second time
C13_Witness ==
  /\ EvenIfCalled /\ file = AdmissionFile /\ hist.n >= 2
  /\ hist.args = Args(april, << <<1, TRUE>>, <<3, TRUE>>, <<2, TRUE>> >>, {5}, 0)
  /\ ret.val = Shown(TRUE)
  /\ BecauseOnFresh(april, hist.args.t) = SatOk(FALSE)

\* the variable of literal l is protected under the vector u
Protected(l, u) == ~Truthy(u[abs(l)])

\* every reason of the list r has a literal of a protected variable
AllReasonsTouchProtected(r, u) ==
  \A n \in 1..Len(r) : \E l \in r[n] : Protected(l, u)

\* the vector of unprotected variables of the notebook: R is protected
UnprotectedAdmission == <<1, 1, 1, 0, 1>>

\* C14: for a decision circuit D and a vector u of unprotected variables,
\* decision_bias(D, u) is true if and only if every reason in Pi(D) has a
\* literal of a protected variable; on the admission circuit with
\* u = [1,1,1,0,1] it is true for Scott and false for Robin and April.
C14_BiasIffEveryReasonProtected ==
  Answered("decision_bias") =>
    /\ Pi(D, 0).err = NoError
         => (ret.val = Shown(TRUE)
               <=> AllReasonsTouchProtected(Pi(D, 0).r, hist.args.a))
    /\ (file = AdmissionFile /\ hist.args.a = UnprotectedAdmission)
         => /\ hist.inst = scott => ret.val = Shown(TRUE)
            /\ hist.inst \in {robin, april} => ret.val = Shown(FALSE)

\* decision_bias has returned True on Scott's decision circuit, which has
\* several reasons, each with the protected literal 4
C14_Witness ==
  /\ Answered("decision_bias") /\ DecisionOf(AdmissionFile, scott)
  /\ hist.args.a = UnprotectedAdmission
  /\ ret.val = Shown(TRUE)
  /\ Len(Pi(D, 0).r) >= 2
  /\ \A n \in 1..Len(Pi(D, 0).r) : 4 \in Pi(D, 0).r[n]

\* the empty assignment
EmptyDict == <<>>

\* condition(d, {}) was run last
ConditionedOnNothing == hist.last = "condition" /\ hist.args.t = EmptyDict

\* C15: conditioning a circuit on the empty assignment returns a circuit
\* with the same labels and child lists as the original, on which
\* is_satisfiable and Pi give the same results as on the original.
C15_ConditionOnEmptyIsIdentity ==
  ConditionedOnNothing =>
    /\ ret.err = NoError
    /\ T.label = D.label
    /\ T.children = D.children
    /\ is_satisfiable(T, 0) = is_satisfiable(D, 0)
    /\ Pi(T, 0) = Pi(D, 0)

\* condition(d, {}) has returned on a circuit with literal leaves of both
\* signs and with reasons
C15_Witness ==
  /\ ConditionedOnNothing /\ ret.err = NoError
  /\ \E i, k \in Nodes(D) :
       /\ IsLiteral(At(D.label, i)) /\ int(At(D.label, i)) > 0
       /\ IsLiteral(At(D.label, k)) /\ int(At(D.label, k)) < 0
  /\ Pi(T, 0).err = NoError /\ Len(Pi(T, 0).r) >= 2

\* the file in use, and the node count its header declares
TheFile == Catalogue[file].nnf

Declared == int(At(TheFile.header, 1))

\* file_to_dDNNF has just returned the circuit d
JustLoaded == hist.last = "file_to_dDNNF" /\ ret.err = NoError

\* the child references written on a node line, in order
ChildRefs(line) ==
  IF line[1] = <<"A">> /\ int(line[2]) > 0
    THEN [j \in 1..int(line[2]) |-> int(line[j + 2])]
  ELSE IF line[1] = <<"O">> /\ int(line[3]) > 0
    THEN <<int(line[4]), int(line[5])>>
  ELSE <<>>

\* C16: file_to_dDNNF stores the node of the c-th node line (from 0) at
\* index v - c - 1 and translates every child reference c' to v - c' - 1;
\* the node of the last line is node 0, and when every line refers to
\* earlier lines only, every child index is greater than its parent's.
C16_LoaderReversesIndices ==
  JustLoaded =>
    LET v == Declared IN
    /\ \A c \in 0..(v - 1) :
         LET line == TheFile.lines[c + 1] IN
         /\ At(D.label, v - c - 1) = LineLabel(line)
         /\ At(D.children, v - c - 1)
              = [j \in 1..Len(ChildRefs(line)) |-> v - ChildRefs(line)[j] - 1]
    /\ v > 0 => At(D.label, 0) = LineLabel(TheFile.lines[v])
    /\ (\A c \in 0..(v - 1) : \A j \in 1..Len(ChildRefs(TheFile.lines[c + 1])) :
          ChildRefs(TheFile.lines[c + 1])[j] < c)
         => \A i \in Nodes(D) : \A j \in 1..Len(At(D.children, i)) :
              At(D.children, i)[j] > i

\* the admission circuit has just been loaded: its root is the Or node of
\* the last line, and its children have greater indices
C16_Witness ==
  /\ JustLoaded /\ file = AdmissionFile
  /\ Len(D.label) = Declared
  /\ At(D.label, 0) = <<"O", "1">>
  /\ Len(At(D.children, 0)) = 2
  /\ \A j \in 1..2 : At(D.children, 0)[j] > 0

\* node n of d is the kind of node the node line says
NodeMatchesLine(n, line) ==
  LET lab  == At(D.label, n)
      kids == At(D.children, n)
  IN
  IF line[1] = <<"A">>
    THEN IF int(line[2]) = 0
           THEN lab = <<"T">> /\ kids = <<>>
           ELSE lab = <<"A">> /\ Len(kids) = int(line[2])
                /\ \A j \in 1..Len(kids) : kids[j] = Declared - int(line[j + 2]) - 1
  ELSE IF line[1] = <<"O">>
    THEN IF int(line[3]) = 0
           THEN lab = <<"F">> /\ kids = <<>>
           ELSE /\ lab[1] = "O" /\ CanInt(Tail(lab)) /\ int(Tail(lab)) = int(line[2])
                /\ Len(kids) = 2
  ELSE (CanInt(line[2]) => CanInt(lab) /\ int(lab) = int(line[2])) /\ kids = <<>>

\* C17: file_to_dDNNF returns a circuit with as many nodes as the header
\* declares; an 'A' line with k = 0 is a True leaf, with k > 0 an And node
\* with its k listed children; an 'O' line with k = 0 is a False leaf, with
\* k > 0 an Or(x) node with two children; any other line is a literal leaf
\* with the line's integer.
C17_LoaderBuildsDeclaredNodes ==
  JustLoaded =>
    /\ Len(D.label) = Declared
    /\ Len(D.children) = Declared
    /\ \A c \in 0..(Declared - 1) :
         NodeMatchesLine(Declared - c - 1, TheFile.lines[c + 1])

\* a file with And lines, Or lines and literal lines has just been loaded
C17_Witness ==
  /\ JustLoaded /\ Declared >= 2
  /\ \E c \in 1..Declared : TheFile.lines[c][1] = <<"A">> /\ int(TheFile.lines[c][2]) > 2
  /\ \E c \in 1..Declared : TheFile.lines[c][1] = <<"O">> /\ int(TheFile.lines[c][3]) = 2
  /\ \E c \in 1..Declared : TheFile.lines[c][1] = <<"L">> /\ int(TheFile.lines[c][2]) < 0
  /\ Len(D.label) = Declared

\* the file f has a malformed header, or a node line with a tag other than
\* A, O and L, or fewer node lines than its header declares
Malformed(f) ==
  \/ IntAt(f.header, 1) # NoError
  \/ f.header[1] # <<"n", "n", "f">>
  \/ Len(f.lines) < int(At(f.header, 1))
  \/ \E c \in 1..Len(f.lines) : f.lines[c][1] \notin {<<"A">>, <<"O">>, <<"L">>}

\* C18: file_to_dDNNF fails with a FormatError if the header is malformed
\* or a node line has an unrecognized tag (a file with fewer node lines than
\* the header declares included), and returns no circuit built from it.
C18_LoaderRejectsMalformed ==
  (hist.last = "file_to_dDNNF" /\ Malformed(TheFile))
    => ret.err = "FormatError" /\ ~Bound(circ.d)

\* the Or(x) nodes of a circuit, in increasing order, and the variable x
OrNodes(V) == Sorted({i \in Nodes(V) : At(V.label, i)[1] = "O"})

OrVariable(V, i) == int(Tail(At(V.label, i)))

\* consensus(d) has just returned, and it is the only in-place procedure
\* run on d since it was loaded
ConsensusOnce ==
  hist.phase = "consensus" /\ hist.last = "consensus" /\ ret.err = NoError

\* C19: consensus, applied once to a loaded circuit with N nodes, appends
\* for every Or(x) node i with children k and j one And node whose children
\* are the children of k then of j whose label is neither literal x nor -x
\* (x of any number of digits), adds it as third child of i, and changes
\* nothing else: N plus the number of Or(x) nodes in all.
C19_ConsensusAddsOneNodePerOr ==
  ConsensusOnce =>
    LET N   == Len(Loaded.label)
        ors == OrNodes(Loaded)
    IN
    /\ Len(D.label) = N + Len(ors)
    /\ Len(D.children) = N + Len(ors)
    /\ \A i \in Nodes(Loaded) :
         /\ At(D.label, i) = At(Loaded.label, i)
         /\ At(Loaded.label, i)[1] # "O"
              => At(D.children, i) = At(Loaded.children, i)
    /\ \A n \in 1..Len(ors) :
         LET i    == ors[n]
             x    == OrVariable(Loaded, i)
             k    == At(Loaded.children, i)[1]
             j    == At(Loaded.children, i)[2]
             both == At(Loaded.children, k) \o At(Loaded.children, j)
             new  == N + n - 1
         IN
         /\ At(D.children, i) = Append(At(Loaded.children, i), new)
         /\ At(D.label, new) = <<"A">>
         /\ At(D.children, new)
              = SelectSeq(both, LAMBDA w : At(Loaded.label, w) \notin {str(x), str(0 - x)})

\* the literal l is positive and its variable false in a, or negative and
\* its variable true
PolarityDisagrees(l, a) ==
  \/ l > 0 /\ a[l] = 0
  \/ l < 0 /\ a[0 - l] # 0

\* C20: filter(D, a) rewrites to False exactly the literal leaves whose
\* polarity disagrees with a and leaves every other label, every child list
\* and the node count unchanged; filtering a second time with the same a
\* changes nothing.
C20_FilterRewritesDisagreeingLeaves ==
  [][(Called({"filter"}) /\ ret'.err = NoError)
       => LET a      == hist'.args.a
              before == View(heap, circ[hist'.on])
              after  == View(heap', circ'[hist'.on])
              again  == filter(heap', circ'[hist'.on], a)
          IN
          /\ Len(after.label) = Len(before.label)
          /\ after.children = before.children
          /\ \A i \in Nodes(before) :
               At(after.label, i)
                 = IF IsLiteral(At(before.label, i))
                        /\ PolarityDisagrees(int(At(before.label, i)), a)
                     THEN <<"F">>
                     ELSE At(before.label, i)
          /\ again.err = NoError
          /\ View(again.heap, dDNNF(again.children, again.label)) = after]_vars

\* filter has returned on a circuit after consensus, rewriting a literal
\* leaf of each sign and keeping another
C20_Witness ==
  /\ IsDecision /\ hist.last = "filter" /\ ret.err = NoError
  /\ \E i, k, n \in Nodes(Loaded) :
       /\ IsLiteral(At(Loaded.label, i)) /\ int(At(Loaded.label, i)) > 0
       /\ IsLiteral(At(Loaded.label, k)) /\ int(At(Loaded.label, k)) < 0
       /\ At(D.label, i) = <<"F">> /\ At(D.label, k) = <<"F">>
       /\ IsLiteral(At(D.label, n))

\* the literals of the dict t: c when t[c] is true, -c otherwise
TermOf(t) == {IF t[n][2] THEN t[n][1] ELSE 0 - t[n][1] : n \in 1..Len(t)}

NegAdmissionFile == CHOOSE f \in 1..Len(Catalogue) : Catalogue[f].nnf = NegAdmissionNNF

\* C21: on a decision circuit D, because_t(D, t) returns true exactly when
\* Pi(D) is one reason, the literals of t; on the negated admission circuit
\* filtered by [1, 0, 1, 0, 1], Pi is {{-2, -4}} and
\* because_t(D, {2: False, 4: False}) is true.
C21_BecauseIffUniqueReason ==
  /\ Answered("because_t")
       => (ret.val = Shown(TRUE) <=> PiIs(D, {TermOf(hist.args.t)}))
  /\ DecisionOf(NegAdmissionFile, scott_flipped)
       => /\ PiIs(D, {{0 - 2, 0 - 4}})
          /\ because_t(heap, circ.d, << <<2, FALSE>>, <<4, FALSE>> >>) = SatOk(TRUE)

C21_Witness ==
  /\ Answered("because_t") /\ file = NegAdmissionFile
  /\ hist.inst = scott_flipped
  /\ hist.args.t = << <<2, FALSE>>, <<4, FALSE>> >>
  /\ ret.val = Shown(TRUE)

\* the variables of the literal leaves below node i, itself included,
\* followed along at most fuel child references
RECURSIVE VarsBelow(_, _, _)
VarsBelow(V, i, fuel) ==
  IF ~InRange(V.label, i) \/ fuel = 0 THEN {}
  ELSE IF IsLiteral(At(V.label, i)) THEN {abs(int(At(V.label, i)))}
  ELSE UNION {VarsBelow(V, At(V.children, i)[n], fuel - 1) :
                n \in 1..Len(At(V.children, i))}

\* the children of every And node have pairwise disjoint variables
Decomposable(V) ==
  \A i \in Nodes(V) :
    At(V.label, i)[1] = "A" =>
      \A p, q \in 1..Len(At(V.children, i)) :
        p # q => VarsBelow(V, At(V.children, i)[p], Fuel(V))
                   \cap VarsBelow(V, At(V.children, i)[q], Fuel(V)) = {}

\* consensus and filter are all that was run on d since it was loaded
OnlyConsensusAndFilter ==
  hist.phase \in {"consensus", "decision", "consensus twice", "filtered twice"}

\* C22: in every circuit reached from a loaded decomposable circuit by
\* consensus and filter, the children of every And node, the nodes appended
\* by consensus included, have pairwise disjoint sets of variables among
\* their literal descendants.
C22_ConsensusKeepsDecomposable ==
  (OnlyConsensusAndFilter /\ Decomposable(Loaded)) => Decomposable(D)

\* C23: on every circuit that file_to_dDNNF then consensus (then filter)
\* produced, is_satisfiable(root) and Pi(root) return; where both children
\* of an Or(x) node are the literal leaves x and -x, the And node consensus
\* appends has no child and counts as the constant True: the circuit is
\* satisfiable and Pi of that node is [set()].
C23_QueriesReturnAfterConsensus ==
  hist.phase \in {"consensus", "decision"}
    => /\ is_satisfiable(D, 0).err = NoError
       /\ Pi(D, 0).err = NoError
       /\ \A i \in Nodes(D) :
            (At(D.label, i) = <<"A">> /\ At(D.children, i) = <<>>)
              => /\ is_satisfiable(D, i) = SatOk(TRUE)
                 /\ Pi(D, i) = PiOk(<<{}>>)

\* the full assignments of the variables vs, as dicts
FullAssignments(vs) ==
  {[k \in 1..Cardinality(vs) |-> <<Sorted(vs)[k], f[Sorted(vs)[k]]>>] :
     f \in [vs -> BOOLEAN]}

\* C24: consensus does not change the Boolean function of the circuit: for
\* every full assignment s of its variables, whatever their ids,
\* is_satisfiable(condition(c, s)) is the same after consensus as before.
C24_ConsensusKeepsFunction ==
  hist.phase = "consensus" =>
    \A s \in FullAssignments(VarsOf(Loaded)) :
      SatCondition(heap, circ.d, s)
        = SatCondition(FileToDDNNF(TheFile).heap, FileToDDNNF(TheFile).circ, s)

\* consensus(d) has returned twice, and nothing else was run on d
ConsensusTwice == hist.phase = "consensus twice"

\* C25: a second consensus on the same circuit appends, for every Or(x)
\* node, one more And node with the same child list as the one the first
\* appended, and adds it as a further child: after two applications to a
\* circuit of N nodes there are N plus twice the number of Or(x) nodes, and
\* every Or(x) node has four children.
C25_ConsensusTwiceAppendsAgain ==
  ConsensusTwice =>
    LET N   == Len(Loaded.label)
        ors == OrNodes(Loaded)
    IN
    /\ Len(D.label) = N + 2 * Len(ors)
    /\ Len(D.children) = N + 2 * Len(ors)
    /\ \A n \in 1..Len(ors) :
         LET first  == N + n - 1
             second == N + Len(ors) + n - 1
         IN
         /\ At(D.children, ors[n])
              = At(Loaded.children, ors[n]) \o <<first, second>>
         /\ Len(At(D.children, ors[n])) = 4
         /\ At(D.label, first) = <<"A">>
         /\ At(D.label, second) = <<"A">>
         /\ At(D.children, second) = At(D.children, first)

C25_Witness ==
  /\ ConsensusTwice /\ hist.last = "consensus" /\ file = AdmissionFile
  /\ Len(D.label) = 22

\* the circuit consensus(d); filter(d, a) leaves when run on the loaded one
OnceThenFilter(a) ==
  LET ld == FileToDDNNF(TheFile)
      c1 == consensus(ld.heap, ld.circ)
      f1 == filter(c1.heap, dDNNF(c1.children, c1.label), a)
  IN  View(f1.heap, dDNNF(f1.children, f1.label))

\* consensus(d); consensus(d); filter(d, a) have returned on the loaded
\* circuit
FilteredTwice == hist.phase = "filtered twice"

\* C26: consensus twice then filter(a) gives the same Pi(root), as a set of
\* sets, and the same is_satisfiable(root) as consensus once then filter(a).
C26_SecondConsensusChangesNoAnswer ==
  FilteredTwice =>
    /\ Pi(D, 0).err = Pi(OnceThenFilter(hist.inst), 0).err
    /\ Range(Pi(D, 0).r) = Range(Pi(OnceThenFilter(hist.inst), 0).r)
    /\ is_satisfiable(D, 0) = is_satisfiable(OnceThenFilter(hist.inst), 0)

C26_Witness ==
  /\ FilteredTwice /\ hist.last = "filter" /\ Catalogue[file].nnf = IteNNF
  /\ hist.inst = <<1, 1, 1>>
  /\ PiIs(D, {{1, 2}, {2, 3}})
  /\ Len(At(D.children, 0)) = 4

\* the nodes the nodes of S refer to as children
Kids(V, S) == UNION {Range(At(V.children, i)) : i \in S \cap Nodes(V)}

\* the nodes reached from those of S along at most n further references
RECURSIVE Reach(_, _, _)
Reach(V, S, n) == IF n = 0 THEN S ELSE Reach(V, S \cup Kids(V, S), n - 1)

Descendants(V, i) == Reach(V, Kids(V, {i}), Len(V.label))

\* no node is its own descendant
Acyclic(V) == \A i \in Nodes(V) : i \notin Descendants(V, i)

\* C27: every sequence of consensus, filter, negate, quantify, condition and
\* evenIf_because_t on a loaded acyclic circuit keeps the children relation
\* acyclic, so the recursions of Pi and is_satisfiable from the root end.
C27_CircuitsStayAcyclic ==
  Acyclic(Loaded) =>
    \A s \in Slots :
      Bound(circ[s]) =>
        /\ Acyclic(Seen(s))
        /\ Pi(Seen(s), 0).err # "RecursionError"
        /\ is_satisfiable(Seen(s), 0).err # "RecursionError"

C27_Witness ==
  /\ hist.n >= 3 /\ hist.last = "consensus" /\ hist.on = "t" /\ ret.err = NoError
  /\ Len(T.label) > Len(Loaded.label)
  /\ \E i \in Nodes(D) : \E n \in 1..Len(At(D.children, i)) :
       ~InRange(D.label, At(D.children, i)[n])

\* the transform named has just returned t, made from d
Returned(name) == hist.last = name /\ ret.err = NoError

\* C28: negate maps the label True to False, False to True, And to Or,
\* Or(x) to And and a literal l to -l, and changes nothing else.
C28_NegateMapsLabels ==
  Returned("negate") =>
    /\ T.children = D.children
    /\ Len(T.label) = Len(D.label)
    /\ \A i \in Nodes(D) :
         LET old == At(D.label, i)
             new == At(T.label, i)
         IN
         /\ old = <<"T">> => new = <<"F">>
         /\ old = <<"F">> => new = <<"T">>
         /\ old[1] = "A" => new[1] = "O"
         /\ old[1] = "O" => new = <<"A">>
         /\ IsLiteral(old) => (IsLiteral(new) /\ int(new) = 0 - int(old))

\* negate has returned on a decision circuit with labels F, And, Or(x) and
\* literals of both signs
C28_Witness ==
  /\ Returned("negate") /\ IsDecision
  /\ \E i \in Nodes(D) : At(D.label, i) = <<"F">> /\ At(T.label, i) = <<"T">>
  /\ \E i \in Nodes(D) : At(D.label, i) = <<"A">> /\ At(T.label, i) = <<"O">>
  /\ \E i \in Nodes(D) : At(D.label, i) = <<"O", "1">> /\ At(T.label, i) = <<"A">>
  /\ \E i \in Nodes(D) : At(D.label, i) = str(2) /\ At(T.label, i) = str(0 - 2)
  /\ \E i \in Nodes(D) : At(D.label, i) = str(0 - 1) /\ At(T.label, i) = str(1)

\* C29: condition(c, a) replaces a literal leaf whose variable y is a key of
\* a by True when its sign agrees with a[y] and by False when it does not,
\* and copies the literals of the other variables and every other label.
C29_ConditionReplacesAssignedLiterals ==
  Returned("condition") =>
    /\ T.children = D.children
    /\ Len(T.label) = Len(D.label)
    /\ \A i \in Nodes(D) :
         LET old == At(D.label, i)
             new == At(T.label, i)
             a   == hist.args.t
         IN
         IF IsLiteral(old) /\ InDict(a, abs(int(old)))
           THEN new = IF (int(old) > 0) = DictGet(a, abs(int(old)))
                        THEN <<"T">> ELSE <<"F">>
           ELSE new = old

\* condition has returned, having replaced one literal by True, one by
\* False, and copied one
C29_Witness ==
  /\ Returned("condition")
  /\ \E i \in Nodes(D) : IsLiteral(At(D.label, i)) /\ At(T.label, i) = <<"T">>
  /\ \E i \in Nodes(D) : IsLiteral(At(D.label, i)) /\ At(T.label, i) = <<"F">>
  /\ \E i \in Nodes(D) : IsLiteral(At(D.label, i)) /\ At(T.label, i) = At(D.label, i)

\* C30: quantify(c, a) replaces by True every literal leaf, of either sign,
\* whose variable a selects, and copies every other label: the literals of
\* the other variables, And, Or(x) with its annotation, True and False.
C30_QuantifyReplacesSelectedLiterals ==
  Returned("quantify") =>
    /\ T.children = D.children
    /\ Len(T.label) = Len(D.label)
    /\ \A i \in Nodes(D) :
         LET old == At(D.label, i)
             new == At(T.label, i)
             a   == hist.args.a
         IN
         IF IsLiteral(old) /\ Truthy(a[abs(int(old))])
           THEN new = <<"T">>
           ELSE new = old

\* quantify has returned, having replaced a positive and a negative literal
\* and copied a literal, an Or(x) label and a False label
C30_Witness ==
  /\ Returned("quantify")
  /\ \E i \in Nodes(D) :
       IsLiteral(At(D.label, i)) /\ int(At(D.label, i)) > 0 /\ At(T.label, i) = <<"T">>
  /\ \E i \in Nodes(D) :
       IsLiteral(At(D.label, i)) /\ int(At(D.label, i)) < 0 /\ At(T.label, i) = <<"T">>
  /\ \E i \in Nodes(D) : IsLiteral(At(D.label, i)) /\ At(T.label, i) = At(D.label, i)
  /\ \E i \in Nodes(D) : At(D.label, i) = <<"O", "1">> /\ At(T.label, i) = <<"O", "1">>
  /\ \E i \in Nodes(D) : At(D.label, i) = <<"F">> /\ At(T.label, i) = <<"F">>
====
